---- MODULE Spec2Model ----
(***************************************************************************)
(* A model of sea_rise_visualize.py: the dataset acquisition step          *)
(* (download_data, download_file), the raster resampling shape, the        *)
(* sea-level normalisation (FixPointNormalize) and the sweep sessions of   *)
(* main.visualize.                                                         *)
(***************************************************************************)
EXTENDS Integers, Sequences, FiniteSets, TLC

VARIABLES
    pc,         \* download_data: the driver's position
    fs,         \* the directories that exist under ./data (and "data" itself)
    files,      \* per group, the resources fully materialised under ./data
    fsAtStart,  \* fs as it was when this invocation of download_data began
    found,      \* groups whose marker the driver found present when it checked
    tasks,      \* the pool's tasks: per group, how many are in each status
    pool,       \* "none", "open", "closed", "terminated"
    listings,   \* directory-listing requests made by this invocation
    stdout,     \* what this invocation printed
    \* one call of download_file(url, filename, dir), on paths as strings
    fcall,      \* the call: [filename, dir, members (the archive's entries)]
    fpc,        \* its position
    disk,       \* the paths of the files on disk
    ddirs,      \* the paths of the directories extraction created
    \* main: reading the elevation raster
    dataset,    \* the opened raster: [count, height, width]
    factor,     \* upscale_factor, a dyadic fraction [num, den]
    rpc,        \* "open", "read", "raised"
    shape,      \* the shape of ETOPO_lowres
    \* one FixPointNormalize object and its last call
    norm,       \* [vmin, vmax, sealevel, col_val]
    nvalue,     \* the value it was last called with
    nresult,    \* what the call returned, a fraction [num, den]
    npc,        \* "made", "called"
    \* main: the sweep sessions (lines 183-208)
    sessions,   \* the calls of visualize to make, in order
    sidx,       \* the index of the current (or last) call
    spc,        \* "start", "saving", "saved", "done", "crashed"
    frames,     \* np.arange(start, stop, step) of the current call
    encoded,    \* the pivots of the frames handed to the encoder by this call
    attempted   \* the indices of the calls of visualize that were made

acqVars == <<pc, fs, files, fsAtStart, found, tasks, pool, listings, stdout>>

fileVars == <<fcall, fpc, disk, ddirs>>

readVars == <<dataset, factor, rpc, shape>>

normVars == <<norm, nvalue, nresult, npc>>

sweepVars == <<sessions, sidx, spc, frames, encoded, attempted>>

vars == <<acqVars, fileVars, readVars, normVars, sweepVars>>

(***************************************************************************)
(* Bounds                                                                  *)
(***************************************************************************)
\* Pool() starts os.cpu_count() workers
NumWorkers == 2
\* entries of a directory listing whose name starts with the group's prefix
MaxListed == 1

(***************************************************************************)
(* The dataset groups                                                      *)
(***************************************************************************)
\* the entry of fs that stands for ./data itself
DataDirEntry == "data"

BlueMarbleUrls == 4
EtopoUrls == 3
EtopoKorea == 1
GshhgUrls == 1

Markers == {"blue-marble", "ETOPO", "gshhg-shp-2.3.7", "ne_10m_land", "ne_110m_land"}

\* the resources whose destination filename is an archive: only the GSHHG one
IsArchiveGroup(g) == g = "gshhg-shp-2.3.7"

Statuses == {"queued", "running", "ok", "failed", "terminated"}

NoTasks == [g \in Markers |-> [st \in Statuses |-> 0]]

\* pool.apply_async(download_file, ...) n times; the AsyncResult is dropped
apply_async(ts, g, n) == [ts EXCEPT ![g]["queued"] = @ + n]

\* the AsyncResult handles download_data keeps: none (lines 57, 69, 81, 91)
Collected == [g \in Markers |-> 0]

\* the failure reports written by download_data or download_file: none
Logged == [g \in Markers |-> 0]

Count(ts, st) ==
    ts["blue-marble"][st] + ts["ETOPO"][st] + ts["gshhg-shp-2.3.7"][st]
        + ts["ne_10m_land"][st] + ts["ne_110m_land"][st]

Submitted(ts, g) ==
    ts[g]["queued"] + ts[g]["running"] + ts[g]["ok"] + ts[g]["failed"]
        + ts[g]["terminated"]

Unfinished(ts) == Count(ts, "queued") + Count(ts, "running")

\* nothing printed yet: the banner line, and download_file's path lines
NoOutput == [banner |-> 0, paths |-> [g \in Markers |-> 0]]

\* a slip: the archive group's directory is never looked for
MarkerPresentMkdirOnly(g) == g \in fs /\ ~IsArchiveGroup(g)

\* os.mkdir raises FileExistsError, os.path.exists is true
MarkerPresent(g) == g \in fs

(***************************************************************************)
(* download_data                                                           *)
(***************************************************************************)
AcqInit ==
    /\ pc = "mkdir_data"
    /\ fs = {}
    /\ files = [g \in Markers |-> 0]
    /\ fsAtStart = {}
    /\ found = {}
    /\ tasks = NoTasks
    /\ pool = "none"
    /\ listings = 0
    /\ stdout = NoOutput

\* lines 42-48: os.mkdir(DATA_DIR), the banner, Pool()
MkdirDataDir ==
    /\ pc = "mkdir_data"
    /\ fs' = fs \cup {DataDirEntry}
    /\ stdout' = [stdout EXCEPT !.banner = @ + 1]
    /\ pool' = "open"
    /\ pc' = "blue-marble"
    /\ UNCHANGED <<files, fsAtStart, found, tasks, listings>>

\* a slip: os.makedirs(marker, exist_ok=True), the urls always submitted
MkdirGroupExistOk(g, n, next) ==
    /\ pc = g
    /\ fs' = fs \cup {g}
    /\ tasks' = apply_async(tasks, g, n)
    /\ pc' = next
    /\ UNCHANGED <<files, fsAtStart, found, pool, listings, stdout>>

\* A group guarded by try: os.mkdir(marker) ... except FileExistsError: pass,
\* whose urls are static (lines 50-60, 63-76)
MkdirGroup(g, n, next) ==
    /\ pc = g
    /\ IF MarkerPresent(g)
         THEN /\ found' = found \cup {g}
              /\ UNCHANGED <<fs, tasks>>
         ELSE /\ fs' = fs \cup {g}
              /\ tasks' = apply_async(tasks, g, n)
              /\ UNCHANGED found
    /\ pc' = next
    /\ UNCHANGED <<files, fsAtStart, pool, listings, stdout>>

BlueMarble == MkdirGroup("blue-marble", BlueMarbleUrls, "ETOPO")

ETOPO == MkdirGroup("ETOPO", EtopoUrls + EtopoKorea, "gshhg-shp-2.3.7")

\* lines 79-81: if not os.path.exists(marker): apply_async(...)
GSHHG ==
    /\ pc = "gshhg-shp-2.3.7"
    /\ IF MarkerPresent("gshhg-shp-2.3.7")
         THEN /\ found' = found \cup {"gshhg-shp-2.3.7"}
              /\ UNCHANGED tasks
         ELSE /\ tasks' = apply_async(tasks, "gshhg-shp-2.3.7", GshhgUrls)
              /\ UNCHANGED found
    /\ pc' = "ne_10m_land"
    /\ UNCHANGED <<fs, files, fsAtStart, pool, listings, stdout>>

\* pool.terminate(): the workers are killed, queued tasks are dropped.  An
\* archive task killed while extracting may have created its directory.
Terminated(ts) ==
    [g \in Markers |->
        [ts[g] EXCEPT !["queued"] = 0, !["running"] = 0,
                      !["terminated"] = @ + ts[g]["queued"] + ts[g]["running"]]]

\* lines 84-94, 96-106: os.mkdir(marker), then json.load(urlopen(...)),
\* filter on the prefix, apply_async per entry.  The request may raise
\* (URLError, HTTPError, a JSON error): only FileExistsError is caught, so
\* the exception leaves the with block, whose __exit__ calls
\* pool.terminate(); the marker directory made just before stays.
ListedGroup(g, next) ==
    /\ pc = g
    /\ IF MarkerPresent(g)
         THEN /\ found' = found \cup {g}
              /\ pc' = next
              /\ UNCHANGED <<fs, tasks, pool, listings>>
         ELSE /\ listings' = listings + 1
              /\ UNCHANGED found
              /\ \/ \E n \in 0..MaxListed :
                      /\ tasks' = apply_async(tasks, g, n)
                      /\ fs' = fs \cup {g}
                      /\ pc' = next
                      /\ UNCHANGED pool
                 \/ /\ tasks' = Terminated(tasks)
                    /\ pool' = "terminated"
                    /\ pc' = "raised"
                    /\ \E partial \in BOOLEAN :
                          fs' = fs \cup {g} \cup
                                  IF partial /\ \E a \in Markers :
                                        IsArchiveGroup(a) /\ tasks[a]["running"] > 0
                                    THEN {"gshhg-shp-2.3.7"}
                                    ELSE {}
    /\ UNCHANGED <<files, fsAtStart, stdout>>

NE10Land == ListedGroup("ne_10m_land", "ne_110m_land")

NE110Land == ListedGroup("ne_110m_land", "close")

\* line 108
PoolClose ==
    /\ pc = "close"
    /\ pool' = "closed"
    /\ pc' = "join"
    /\ UNCHANGED <<fs, files, fsAtStart, found, tasks, listings, stdout>>

\* line 109, then the with block's __exit__ (terminate of an idle pool)
PoolJoin ==
    /\ pc = "join"
    /\ Unfinished(tasks) = 0
    /\ pool' = "terminated"
    /\ pc' = "returned"
    /\ UNCHANGED <<fs, files, fsAtStart, found, tasks, listings, stdout>>

(***************************************************************************)
(* The pool's workers running download_file                                *)
(***************************************************************************)
\* the order in which download_data submits the groups' tasks
GroupOrder == <<"blue-marble", "ETOPO", "gshhg-shp-2.3.7", "ne_10m_land", "ne_110m_land">>

\* a worker takes the oldest queued task
NextQueued ==
    LET waiting == {k \in DOMAIN GroupOrder : tasks[GroupOrder[k]]["queued"] > 0}
    IN  IF waiting = {} THEN {}
        ELSE {GroupOrder[CHOOSE k \in waiting : \A j \in waiting : k <= j]}

WorkerStart ==
    /\ pool \in {"open", "closed"}
    /\ Count(tasks, "running") < NumWorkers
    /\ \E g \in NextQueued :
          tasks' = [tasks EXCEPT ![g]["queued"] = @ - 1, ![g]["running"] = @ + 1]
    /\ UNCHANGED <<pc, fs, files, fsAtStart, found, pool, listings, stdout>>

\* download_file returns: urlretrieve, print(filepath), and for an archive
\* extractall (which creates the directory) and os.remove
WorkerFinish ==
    /\ pool \in {"open", "closed"}
    /\ \E g \in Markers :
          /\ tasks[g]["running"] > 0
          /\ tasks' = [tasks EXCEPT ![g]["running"] = @ - 1, ![g]["ok"] = @ + 1]
          /\ stdout' = [stdout EXCEPT !.paths[g] = @ + 1]
          /\ fs' = IF IsArchiveGroup(g) THEN fs \cup {g} ELSE fs
          /\ files' = [files EXCEPT ![g] = @ + 1]
    /\ UNCHANGED <<pc, fsAtStart, found, pool, listings>>

\* a slip: the exception is not caught in the worker, which dies with its
\* task and takes the pool's other tasks with it
WorkerFailKillsPool ==
    /\ pool \in {"open", "closed"}
    /\ \E g \in Markers :
          /\ tasks[g]["running"] > 0
          /\ tasks' = Terminated([tasks EXCEPT ![g]["running"] = @ - 1,
                                               ![g]["failed"] = @ + 1])
    /\ UNCHANGED <<pc, fs, files, fsAtStart, found, pool, listings, stdout>>

\* download_file raises: in urlretrieve (nothing printed), or in ZipFile /
\* extractall (the path is printed, the directory may have been created).
\* The worker catches the exception and stores it in the task's AsyncResult.
WorkerFail ==
    /\ pool \in {"open", "closed"}
    /\ \E g \in Markers :
          /\ tasks[g]["running"] > 0
          /\ tasks' = [tasks EXCEPT ![g]["running"] = @ - 1, ![g]["failed"] = @ + 1]
          /\ \/ UNCHANGED <<stdout, fs>>
             \/ /\ IsArchiveGroup(g)
                /\ stdout' = [stdout EXCEPT !.paths[g] = @ + 1]
                /\ \E partial \in BOOLEAN :
                      fs' = IF partial THEN fs \cup {g} ELSE fs
    /\ UNCHANGED <<pc, files, fsAtStart, found, pool, listings>>

\* the program is run again: a new process, the same ./data
Rerun ==
    /\ pc \in {"returned", "raised"}
    /\ pc' = "mkdir_data"
    /\ fsAtStart' = fs
    /\ found' = {}
    /\ tasks' = NoTasks
    /\ pool' = "none"
    /\ listings' = 0
    /\ stdout' = NoOutput
    /\ UNCHANGED <<fs, files>>

(***************************************************************************)
(* Paths: strings are sequences of one-character strings                   *)
(***************************************************************************)
\* longest filename, in dot-separated segments
MaxSegments == 3

DATA_DIR == <<".", "/", "d", "a", "t", "a">>

Zip == <<"z", "i", "p">>

Last(s) == s[Len(s)]

Front(s) == SubSeq(s, 1, Len(s) - 1)

\* str.split(sep): the pieces between the separators, empty pieces kept
RECURSIVE split(_, _)
split(s, sep) ==
    IF \A i \in 1..Len(s) : s[i] # sep
      THEN <<s>>
      ELSE LET k == CHOOSE i \in 1..Len(s) :
                        s[i] = sep /\ \A j \in 1..(i - 1) : s[j] # sep
           IN  <<SubSeq(s, 1, k - 1)>> \o split(SubSeq(s, k + 1, Len(s)), sep)

\* sep.join(parts)
RECURSIVE join(_, _)
join(parts, sep) ==
    IF Len(parts) = 0 THEN <<>>
    ELSE IF Len(parts) = 1 THEN parts[1]
    ELSE parts[1] \o <<sep>> \o join(Tail(parts), sep)

\* posixpath.join(a, b): b replaces a when absolute, else is appended
\* after a single separator
join2(a, b) ==
    IF Len(b) > 0 /\ b[1] = "/" THEN b
    ELSE IF Len(a) = 0 \/ Last(a) = "/" THEN a \o b
    ELSE a \o <<"/">> \o b

\* line 113: os.path.join(DATA_DIR, dir, filename)
filepath(dir, filename) == join2(join2(DATA_DIR, dir), filename)

\* line 116: filepath.split('.')[-1] == 'zip'
is_zip(path) == Last(split(path, ".")) = Zip

\* a slip: filepath.split('.')[:2], the path up to the name's first dot
extract_dir_first(path) == join(SubSeq(split(path, "."), 1, 2), ".")

\* line 118: '.'.join(filepath.split('.')[:-1])
extract_dir(path) == join(Front(split(path, ".")), ".")

(***************************************************************************)
(* download_file                                                           *)
(***************************************************************************)
Segments == {<<"a">>, Zip, <<"z", "i">>, <<"t", "i", "f">>, <<>>}

\* the filenames: up to MaxSegments segments joined by dots, not dots alone
Filenames ==
    {join(segs, ".") :
        segs \in {q \in UNION {[1..n -> Segments] : n \in 1..MaxSegments} :
                    \E i \in DOMAIN q : q[i] # <<>>}}

Dirs == {<<>>, <<"E", "T", "O", "P", "O">>}

Entries == {<<"e">>, <<"f">>}

\* a file that was on disk before the call
OldFile == DATA_DIR \o <<"/", "o", "l", "d">>

FileInit ==
    /\ fcall \in [filename : Filenames, dir : Dirs, members : SUBSET Entries]
    /\ fpc = "call"
    /\ disk \in {{}, {OldFile}}
    /\ ddirs = {}

ThePath == filepath(fcall.dir, fcall.filename)

EntryPaths(dir, members) == {dir \o <<"/">> \o e : e \in members}

\* line 114: urlretrieve writes the resource at the destination path, or
\* raises (leaving nothing, or a partial file)
Retrieve ==
    /\ fpc = "call"
    /\ \/ /\ disk' = disk \cup {ThePath}
          /\ fpc' = "retrieved"
       \/ /\ \E partial \in BOOLEAN :
                disk' = IF partial THEN disk \cup {ThePath} ELSE disk
          /\ fpc' = "raised"
    /\ UNCHANGED <<fcall, ddirs>>

\* lines 115-118: print, then for an archive ZipFile(...).extractall(dir);
\* a corrupt archive raises with some of the entries written
Extract ==
    /\ fpc = "retrieved"
    /\ IF is_zip(ThePath)
         THEN \/ /\ disk' = disk \cup EntryPaths(extract_dir(ThePath), fcall.members)
                 /\ ddirs' = ddirs \cup {extract_dir(ThePath)}
                 /\ fpc' = "extracted"
              \/ /\ \E some \in SUBSET fcall.members :
                       /\ some # fcall.members
                       /\ disk' = disk \cup EntryPaths(extract_dir(ThePath), some)
                 /\ \E made \in BOOLEAN :
                       ddirs' = IF made THEN ddirs \cup {extract_dir(ThePath)} ELSE ddirs
                 /\ fpc' = "raised"
         ELSE /\ fpc' = "returned"
              /\ UNCHANGED <<disk, ddirs>>
    /\ UNCHANGED fcall

\* line 119: os.remove(filepath)
Remove ==
    /\ fpc = "extracted"
    /\ disk' = disk \ {ThePath}
    /\ fpc' = "returned"
    /\ UNCHANGED <<fcall, ddirs>>

(***************************************************************************)
(* main: resampling the raster (lines 130-139)                             *)
(***************************************************************************)
\* largest raster height and width drawn
MaxDim == 9

\* the ETOPO 60s surface raster and the factor main uses
EtopoHeight == 10800
EtopoWidth == 21600
UpscaleDen == 16

\* a slip: math.ceil in place of int
int_ceil(num, den) == (num + den - 1) \div den

\* int(x) of a non-negative fraction: truncation
int(num, den) == num \div den

\* numpy's squeeze(): the axes of length one are dropped
squeeze(sh) == SelectSeq(sh, LAMBDA n : n # 1)

\* out_shape=(count, int(height * factor), int(width * factor))
out_shape(ds, f) ==
    <<ds.count, int(ds.height * f.num, f.den), int(ds.width * f.num, f.den)>>

\* the factors drawn are dyadic: height * factor is exact in binary64
Factors ==
    {[num |-> 1, den |-> UpscaleDen], [num |-> 1, den |-> 1], [num |-> 1, den |-> 2],
     [num |-> 1, den |-> 4], [num |-> 3, den |-> 4], [num |-> 5, den |-> 8]}

ReadInit ==
    /\ \/ dataset \in [count : {1}, height : 1..MaxDim, width : 1..MaxDim]
       \/ dataset \in [count : {1, 3}, height : {24, 44, EtopoHeight},
                       width : {EtopoWidth}]
    /\ factor \in Factors
    /\ rpc = "open"
    /\ shape = <<>>

\* dataset.read(out_shape=...).squeeze(); what the reader does with an
\* empty out_shape is its own: it raises or returns an empty array
Read ==
    /\ rpc = "open"
    /\ \/ /\ shape' = squeeze(out_shape(dataset, factor))
          /\ rpc' = "read"
       \/ /\ \E i \in 2..3 : out_shape(dataset, factor)[i] = 0
          /\ rpc' = "raised"
          /\ UNCHANGED shape
    /\ UNCHANGED <<dataset, factor>>

(***************************************************************************)
(* FixPointNormalize (lines 20-34), in exact fractions                     *)
(***************************************************************************)
\* elevations are drawn from -MaxElev..MaxElev
MaxElev == 3

Frac(n, d) == [num |-> n, den |-> d]

FracLeq(x, y) == x.num * y.den <= y.num * x.den

FracEq(x, y) == x.num * y.den = y.num * x.den

FracAdd(x, y) == Frac(x.num * y.den + y.num * x.den, x.den * y.den)

FracSub(x, y) == Frac(x.num * y.den - y.num * x.den, x.den * y.den)

\* x * k / d for integers k, d with d > 0
FracScale(x, k, d) == Frac(x.num * k, x.den * d)

\* the default col_val, 0.21875 = 7/32
DefaultColValNum == 7
DefaultColValDen == 32

\* numpy's binary_search_with_guess on a short array: the last index i
\* (from 1) with xp[i] <= key, by linear search; 0 below xp[1], Len + 1 above
RECURSIVE linear_search(_, _, _)
linear_search(key, xp, i) ==
    IF i <= Len(xp) /\ key >= xp[i] THEN linear_search(key, xp, i + 1) ELSE i - 1

search(key, xp) ==
    IF key > xp[Len(xp)] THEN Len(xp) + 1
    ELSE IF key < xp[1] THEN 0
    ELSE linear_search(key, xp, 2)

\* np.interp(x, xp, fp) for one x: fp's ends outside xp, fp[j] at a point
\* of xp, else the line through the neighbouring points
interp(x, xp, fp) ==
    LET j == search(x, xp)
    IN  IF j = 0 THEN fp[1]
        ELSE IF j = Len(xp) + 1 THEN fp[Len(xp)]
        ELSE IF j = Len(xp) THEN fp[j]
        ELSE IF xp[j] = x THEN fp[j]
        ELSE FracAdd(FracScale(FracSub(fp[j + 1], fp[j]), x - xp[j], xp[j + 1] - xp[j]),
                     fp[j])

\* a slip: the pivot left out, as in the plain Normalize
call_plain(n, value) == interp(value, <<n.vmin, n.vmax>>, <<Frac(0, 1), Frac(1, 1)>>)

\* line 33-34: __call__
call(n, value) ==
    interp(value, <<n.vmin, n.sealevel, n.vmax>>, <<Frac(0, 1), n.col_val, Frac(1, 1)>>)

Elevations == (0 - MaxElev)..MaxElev

ColVals == {Frac(DefaultColValNum, DefaultColValDen), Frac(1, 2), Frac(0, 1), Frac(1, 1)}

\* FixPointNormalize(sealevel=f, vmax=vmax, vmin=vmin) with vmin <= vmax as
\* np.min and np.max give them
NormInit ==
    /\ norm \in {n \in [vmin : Elevations, vmax : Elevations, sealevel : Elevations,
                       col_val : ColVals] : n.vmin <= n.vmax}
    /\ nvalue = 0
    /\ nresult = Frac(0, 1)
    /\ npc = "made"

Call ==
    /\ \E v \in ((0 - MaxElev) - 1)..(MaxElev + 1) :
          /\ nvalue' = v
          /\ nresult' = call(norm, v)
    /\ npc' = "called"
    /\ UNCHANGED norm

\* animate(f): a new FixPointNormalize with the pivot moved, same vmin, vmax
Animate ==
    /\ \E f \in Elevations : norm' = [norm EXCEPT !.sealevel = f]
    /\ npc' = "made"
    /\ UNCHANGED <<nvalue, nresult>>

(***************************************************************************)
(* Natural numbers of any size, as limbs of fifteen bits, lowest first     *)
(* (no leading zero limb; zero is the empty sequence)                      *)
(***************************************************************************)
LimbBits == 15

Base == 2 ^ LimbBits

Limb(a, i) == IF i >= 1 /\ i <= Len(a) THEN a[i] ELSE 0

\* the index of the highest limb that is not zero, 0 when there is none
top(a) ==
    LET nz == {i \in 1..Len(a) : a[i] # 0}
    IN  IF nz = {} THEN 0 ELSE CHOOSE i \in nz : \A j \in nz : j <= i

trim(a) == SubSeq(a, 1, top(a))

\* 0 <= n < 2^31
nat(n) == trim(<<n % Base, (n \div Base) % Base, n \div (Base * Base)>>)

\* a < Base^2
to_int(a) == Limb(a, 1) + Base * Limb(a, 2)

\* the carry into limb i of a + b
carry(a, b, i) ==
    IF \E j \in 1..(i - 1) :
           /\ Limb(a, j) + Limb(b, j) >= Base
           /\ \A k \in (j + 1)..(i - 1) : Limb(a, k) + Limb(b, k) = Base - 1
      THEN 1 ELSE 0

add(a, b) ==
    LET n == (IF Len(a) > Len(b) THEN Len(a) ELSE Len(b)) + 1
    IN  trim([i \in 1..n |-> (Limb(a, i) + Limb(b, i) + carry(a, b, i)) % Base])

\* the borrow from limb i of a - b
borrow(a, b, i) ==
    IF \E j \in 1..(i - 1) :
           /\ Limb(a, j) < Limb(b, j)
           /\ \A k \in (j + 1)..(i - 1) : Limb(a, k) = Limb(b, k)
      THEN 1 ELSE 0

\* a - b for a >= b
sub(a, b) ==
    trim([i \in 1..Len(a) |-> (Limb(a, i) - Limb(b, i) - borrow(a, b, i)) % Base])

\* -1, 0, 1 as a < b, a = b, a > b
cmp(a, b) ==
    IF Len(a) < Len(b) THEN -1
    ELSE IF Len(a) > Len(b) THEN 1
    ELSE LET differ == {i \in 1..Len(a) : a[i] # b[i]}
         IN  IF differ = {} THEN 0
             ELSE LET i == CHOOSE i \in differ : \A j \in differ : j <= i
                  IN  IF a[i] < b[i] THEN -1 ELSE 1

\* a * k for 0 <= k <= Base: the low halves of the limb products plus their
\* high halves one limb up
mul_small(a, k) ==
    add([i \in 1..Len(a) |-> (a[i] * k) % Base],
        <<0>> \o [i \in 1..Len(a) |-> (a[i] * k) \div Base])

RECURSIVE mul(_, _)
mul(a, b) ==
    IF Len(a) = 0 \/ Len(b) = 0 THEN <<>>
    ELSE LET rest == mul(a, Tail(b))
         IN  add(mul_small(a, b[1]), IF Len(rest) = 0 THEN <<>> ELSE <<0>> \o rest)

Zeros(n) == [i \in 1..n |-> 0]

\* a * 2^n
shl(a, n) ==
    IF Len(a) = 0 THEN <<>>
    ELSE Zeros(n \div LimbBits) \o mul_small(a, 2 ^ (n % LimbBits))

\* floor(a / 2^n)
shr(a, n) ==
    LET w == n \div LimbBits
        r == n % LimbBits
    IN  trim([i \in 1..(Len(a) - w) |->
                 (a[i + w] \div (2 ^ r))
                 + (Limb(a, i + w + 1) % (2 ^ r)) * (2 ^ (LimbBits - r))])

\* bit i of a, the lowest being bit 0
bit(a, i) == (Limb(a, i \div LimbBits + 1) \div (2 ^ (i % LimbBits))) % 2

\* whether a is a multiple of 2^n
low_zero(a, n) ==
    /\ \A i \in 1..(n \div LimbBits) : Limb(a, i) = 0
    /\ Limb(a, n \div LimbBits + 1) % (2 ^ (n % LimbBits)) = 0

\* the number of bits of 0 <= x < Base
small_bitlen(x) ==
    CHOOSE n \in 0..LimbBits : x < 2 ^ n /\ (n = 0 \/ x >= 2 ^ (n - 1))

bitlen(a) ==
    IF Len(a) = 0 THEN 0 ELSE LimbBits * (Len(a) - 1) + small_bitlen(a[Len(a)])

\* the k with b * k <= r < b * (k + 1), for r < b * Base and b's highest limb
\* at least Base / 2: the two highest limbs of r over the highest limb of b
\* are k, k + 1 or k + 2
digit(r, b) ==
    LET n == Len(b)
        est == (Limb(r, n) + Base * Limb(r, n + 1)) \div b[n]
        hi == IF est > Base - 1 THEN Base - 1 ELSE est
        lo == IF hi < 2 THEN 0 ELSE hi - 2
    IN  CHOOSE k \in lo..hi :
            /\ cmp(mul_small(b, k), r) <= 0
            /\ cmp(mul_small(b, k + 1), r) > 0

\* long division, limb i of a downwards with the remainder r so far:
\* <<the quotient's limbs, the remainder>>
RECURSIVE divmod_from(_, _, _, _)
divmod_from(a, b, i, r) ==
    IF i = 0 THEN <<<<>>, r>>
    ELSE LET r2 == trim(<<a[i]>> \o r)
             d == digit(r2, b)
             rec == divmod_from(a, b, i - 1, sub(r2, mul_small(b, d)))
         IN  <<rec[1] \o <<d>>, rec[2]>>

\* <<floor(a / b), a mod b>> for b > 0: both are scaled to bring b's highest
\* limb to Base / 2 or more, and the limbs of a above b's length start the
\* remainder
divmod(a, b) ==
    IF cmp(a, b) < 0 THEN <<<<>>, a>>
    ELSE LET s == LimbBits - small_bitlen(b[Len(b)])
             an == shl(a, s)
             bn == shl(b, s)
             first == Len(an) - Len(bn) + 1
             qr == divmod_from(an, bn, first, SubSeq(an, first + 1, Len(an)))
         IN  <<trim(qr[1]), shr(qr[2], s)>>

(***************************************************************************)
(* IEEE 754 binary64 numbers: [neg, m, e] for (-1)^neg * m * 2^e with      *)
(* 2^52 <= m < 2^53, or m = 0.  Every operation is the exact result        *)
(* rounded to nearest, ties to even (no subnormals, infinities or NaNs:    *)
(* the sweeps stay far from both ends of the range).                       *)
(***************************************************************************)
Precision == 53

d_zero == [neg |-> FALSE, m |-> <<>>, e |-> 0]

\* (-1)^neg * (q + x) * 2^e rounded, where 0 <= x < 1 and x > 0 iff sticky;
\* q has at least Precision + 2 bits when sticky
round(neg, q, sticky, e) ==
    LET L == bitlen(q)
    IN  IF L = 0 THEN d_zero
        ELSE IF L <= Precision
          THEN [neg |-> neg, m |-> shl(q, Precision - L), e |-> e - (Precision - L)]
        ELSE LET drop == L - Precision
                 m0 == shr(q, drop)
                 half == bit(q, drop - 1) = 1
                 rest == sticky \/ ~low_zero(q, drop - 1)
                 up == half /\ (rest \/ bit(m0, 0) = 1)
                 m1 == IF up THEN add(m0, <<1>>) ELSE m0
             IN  IF bitlen(m1) > Precision
                   THEN [neg |-> neg, m |-> shr(m1, 1), e |-> e + drop + 1]
                   ELSE [neg |-> neg, m |-> m1, e |-> e + drop]

d_int(n) == IF n < 0 THEN round(TRUE, nat(0 - n), FALSE, 0) ELSE round(FALSE, nat(n), FALSE, 0)

\* a / b for naturals a and b > 0, times 2^e
round_div(neg, a, b, e) ==
    IF Len(a) = 0 THEN d_zero
    ELSE LET k == Precision + 3 + bitlen(b) - bitlen(a)
             up == IF k > 0 THEN k ELSE 0
             qr == divmod(shl(a, up), b)
         IN  round(neg, qr[1], Len(qr[2]) > 0, e - up)

\* 10^k, k <= 9
pow10(k) == nat(10 ^ k)

\* the float literal n / 10^scale, n >= 0
d_literal(n, scale) == round_div(FALSE, nat(n), pow10(scale), 0)

d_neg(x) == IF Len(x.m) = 0 THEN x ELSE [x EXCEPT !.neg = ~x.neg]

\* -1, 0, 1 for the magnitudes of x and y
d_cmp_abs(x, y) ==
    IF Len(x.m) = 0 \/ Len(y.m) = 0
      THEN (IF Len(x.m) = 0 THEN 0 ELSE 1) - (IF Len(y.m) = 0 THEN 0 ELSE 1)
    ELSE IF x.e < y.e THEN -1
    ELSE IF x.e > y.e THEN 1
    ELSE cmp(x.m, y.m)

d_cmp(x, y) ==
    IF x.neg /\ ~y.neg THEN -1
    ELSE IF ~x.neg /\ y.neg THEN 1
    ELSE IF x.neg THEN d_cmp_abs(y, x)
    ELSE d_cmp_abs(x, y)

d_lt(x, y) == d_cmp(x, y) < 0

d_add(x, y) ==
    IF Len(x.m) = 0 THEN y
    ELSE IF Len(y.m) = 0 THEN x
    ELSE LET e0 == IF x.e < y.e THEN x.e ELSE y.e
             a == shl(x.m, x.e - e0)
             b == shl(y.m, y.e - e0)
         IN  IF x.neg = y.neg THEN round(x.neg, add(a, b), FALSE, e0)
             ELSE IF cmp(a, b) >= 0 THEN round(x.neg, sub(a, b), FALSE, e0)
             ELSE round(y.neg, sub(b, a), FALSE, e0)

d_sub(x, y) == d_add(x, d_neg(y))

d_mul(x, y) == round(x.neg # y.neg, mul(x.m, y.m), FALSE, x.e + y.e)

d_div(x, y) == round_div(x.neg # y.neg, x.m, y.m, x.e - y.e)

\* math.ceil of x as an integer (|x| < 2^30)
d_ceil(x) ==
    IF Len(x.m) = 0 THEN 0
    ELSE IF x.e >= 0 THEN (IF x.neg THEN -1 ELSE 1) * to_int(shl(x.m, x.e))
    ELSE LET whole == to_int(shr(x.m, 0 - x.e))
             exact == low_zero(x.m, 0 - x.e)
         IN  IF x.neg THEN 0 - whole
             ELSE IF exact THEN whole ELSE whole + 1

(***************************************************************************)
(* np.arange and main.visualize (lines 183-208)                            *)
(***************************************************************************)
\* integer sweeps are drawn with stop up to MaxStop and step up to MaxStep
MaxStop == 5
MaxStep == 2

\* a number as written in the call: n / 10^scale, an int when scale = 0
Lit(n, scale) == [n |-> n, scale |-> scale]

Sweep(start, stop, step, digits, fps) ==
    [start |-> start, stop |-> stop, step |-> step, digits |-> digits, fps |-> fps]

d_of(lit) == IF lit.scale = 0 THEN d_int(lit.n) ELSE d_literal(lit.n, lit.scale)

IsIntSweep(sw) == sw.start.scale = 0 /\ sw.stop.scale = 0 /\ sw.step.scale = 0

NonNegative(n) == IF n < 0 THEN 0 ELSE n

\* a slip: the length rounded down
arange_len_floor(sw) ==
    LET q == d_div(d_sub(d_of(sw.stop), d_of(sw.start)), d_of(sw.step))
    IN  NonNegative(0 - d_ceil(d_neg(q)))

\* the length of np.arange(start, stop, step): ceil((stop - start) / step),
\* the division being a float division
arange_len(sw) ==
    NonNegative(d_ceil(d_div(d_sub(d_of(sw.stop), d_of(sw.start)), d_of(sw.step))))

\* np.arange: integers are filled exactly; floats are filled as
\* start + i * delta with delta = (start + step) - start, each operation
\* rounded
arange(sw) ==
    IF IsIntSweep(sw)
      THEN [i \in 1..arange_len(sw) |-> d_int(sw.start.n + (i - 1) * sw.step.n)]
      ELSE LET first == d_of(sw.start)
               delta == d_sub(d_add(first, d_of(sw.step)), first)
           IN  [i \in 1..arange_len(sw) |->
                    IF i = 1 THEN first
                    ELSE IF i = 2 THEN d_add(first, d_of(sw.step))
                    ELSE d_add(first, d_mul(d_int(i - 1), delta))]

\* lines 207-208 (and the call commented out on line 206)
Configured ==
    <<Sweep(Lit(0, 0), Lit(1011, 1), Lit(1, 1), 1, 30),
      Sweep(Lit(0, 0), Lit(6021, 0), Lit(4, 0), 0, 30)>>

IntSweeps ==
    {Sweep(Lit(a, 0), Lit(b, 0), Lit(c, 0), 0, 30) :
        a \in 0..1, b \in 1..MaxStop, c \in 1..MaxStep}

FloatSweeps ==
    {Sweep(Lit(0, 0), Lit(10001, 1), Lit(100, 0), 0, 4),
     Sweep(Lit(1, 0), Lit(13, 1), Lit(1, 1), 1, 30),
     Sweep(Lit(0, 0), Lit(3, 1), Lit(1, 1), 1, 30),
     Sweep(Lit(5, 1), Lit(25, 1), Lit(5, 1), 1, 30)}

\* main's two calls, or one call of visualize with another sweep
SweepInit ==
    /\ sessions \in {Configured} \cup {<<sw>> : sw \in IntSweeps \cup FloatSweeps}
    /\ sidx = 0
    /\ spc = "start"
    /\ frames = <<>>
    /\ encoded = <<>>
    /\ attempted = {}

\* visualize(...) is called: FuncAnimation(fig, animate, np.arange(...))
Visualize ==
    /\ spc \in {"start", "saved"}
    /\ sidx < Len(sessions)
    /\ sidx' = sidx + 1
    /\ attempted' = attempted \cup {sidx + 1}
    /\ frames' = arange(sessions[sidx + 1])
    /\ encoded' = <<>>
    /\ spc' = "saving"
    /\ UNCHANGED sessions

\* anim.save: the next frame of the sequence is drawn by animate(f) and
\* grabbed by the writer
GrabFrame ==
    /\ spc = "saving"
    /\ Len(encoded) < Len(frames)
    /\ encoded' = Append(encoded, frames[Len(encoded) + 1])
    /\ UNCHANGED <<sessions, sidx, spc, frames, attempted>>

\* anim.save returns
Saved ==
    /\ spc = "saving"
    /\ Len(encoded) = Len(frames)
    /\ spc' = "saved"
    /\ UNCHANGED <<sessions, sidx, frames, encoded, attempted>>

\* anim.save raises (no encoder, no ./out, the encoder dies): nothing in
\* visualize or main catches it
EncoderFails ==
    /\ spc = "saving"
    /\ spc' = "crashed"
    /\ UNCHANGED <<sessions, sidx, frames, encoded, attempted>>

\* main returns after its last call of visualize
MainReturns ==
    /\ spc = "saved"
    /\ sidx = Len(sessions)
    /\ spc' = "done"
    /\ UNCHANGED <<sessions, sidx, frames, encoded, attempted>>

(***************************************************************************)
(* Specifications                                                          *)
(***************************************************************************)
AcqIdle == AcqInit

FileIdle ==
    /\ fcall = [filename |-> <<"a">>, dir |-> <<>>, members |-> {}]
    /\ fpc = "idle"
    /\ disk = {}
    /\ ddirs = {}

ReadIdle ==
    /\ dataset = [count |-> 1, height |-> EtopoHeight, width |-> EtopoWidth]
    /\ factor = [num |-> 1, den |-> UpscaleDen]
    /\ rpc = "idle"
    /\ shape = <<>>

NormIdle ==
    /\ norm = [vmin |-> 0, vmax |-> 0, sealevel |-> 0,
               col_val |-> Frac(DefaultColValNum, DefaultColValDen)]
    /\ nvalue = 0
    /\ nresult = Frac(0, 1)
    /\ npc = "idle"

SweepIdle ==
    /\ sessions = <<>>
    /\ sidx = 0
    /\ spc = "idle"
    /\ frames = <<>>
    /\ encoded = <<>>
    /\ attempted = {}

Init == AcqInit /\ FileIdle /\ ReadIdle /\ NormIdle /\ SweepIdle

AcqOnly == UNCHANGED <<fileVars, readVars, normVars, sweepVars>>

\* download_data, its pool, and the script run again
Next ==
    \/ MkdirDataDir /\ AcqOnly
    \/ BlueMarble /\ AcqOnly
    \/ ETOPO /\ AcqOnly
    \/ GSHHG /\ AcqOnly
    \/ NE10Land /\ AcqOnly
    \/ NE110Land /\ AcqOnly
    \/ PoolClose /\ AcqOnly
    \/ PoolJoin /\ AcqOnly
    \/ WorkerStart /\ AcqOnly
    \/ WorkerFinish /\ AcqOnly
    \/ WorkerFail /\ AcqOnly
    \/ Rerun /\ AcqOnly

Spec == Init /\ [][Next]_vars

FileOnly == UNCHANGED <<acqVars, readVars, normVars, sweepVars>>

\* download_file
FileNext ==
    \/ Retrieve /\ FileOnly
    \/ Extract /\ FileOnly
    \/ Remove /\ FileOnly

FileStart == AcqIdle /\ FileInit /\ ReadIdle /\ NormIdle /\ SweepIdle

FileSpec == FileStart /\ [][FileNext]_vars

\* main's read of the raster
ReadNext == Read /\ UNCHANGED <<acqVars, fileVars, normVars, sweepVars>>

ReadStart == AcqIdle /\ FileIdle /\ ReadInit /\ NormIdle /\ SweepIdle

ReadSpec == ReadStart /\ [][ReadNext]_vars

NormOnly == UNCHANGED <<acqVars, fileVars, readVars, sweepVars>>

\* FixPointNormalize
NormNext ==
    \/ Call /\ NormOnly
    \/ Animate /\ NormOnly

NormStart == AcqIdle /\ FileIdle /\ ReadIdle /\ NormInit /\ SweepIdle

NormSpec == NormStart /\ [][NormNext]_vars

SweepOnly == UNCHANGED <<acqVars, fileVars, readVars, normVars>>

\* main's calls of visualize
SweepNext ==
    \/ Visualize /\ SweepOnly
    \/ GrabFrame /\ SweepOnly
    \/ Saved /\ SweepOnly
    \/ EncoderFails /\ SweepOnly
    \/ MainReturns /\ SweepOnly

SweepStart == AcqIdle /\ FileIdle /\ ReadIdle /\ NormIdle /\ SweepInit

SweepSpec == SweepStart /\ [][SweepNext]_vars

\* The pool's workers are processes of their own and pool.join() polls them:
\* a poll step that can be taken is taken.
PoolStep ==
    /\ WorkerStart \/ WorkerFinish \/ WorkerFail \/ PoolJoin
    /\ AcqOnly

FairSpec == Spec /\ WF_vars(PoolStep)

(***************************************************************************)
(* The claims about acquisition                                            *)
(***************************************************************************)
NoneSubmitted == \A g \in Markers : Submitted(tasks, g) = 0

\* C1: when every group's marker directory exists as download_data is
\* invoked, the invocation submits no download_file task and makes no
\* directory-listing request.
C1_Idempotent ==
    Markers \subseteq fsAtStart => NoneSubmitted /\ listings = 0

C1_Witness ==
    /\ Markers \subseteq fsAtStart
    /\ pc = "returned"
    /\ found = Markers

\* C2: the pool is shut down only after every submitted task has finished:
\* no submitted task is terminated before it completes.
C2_ShutdownAfterFinish ==
    pool = "terminated" =>
        Count(tasks, "terminated") = 0 /\ Unfinished(tasks) = 0

\* C3: after download_data returns, every failed download_file task has
\* been logged or collected by the driver.
C3_FailureSurfaced ==
    pc = "returned" =>
        \A g \in Markers : tasks[g]["failed"] <= Collected[g] + Logged[g]

\* C4: a task's failure leaves its siblings and the pool as they were, and
\* once the driver waits in pool.join() it returns with every submitted task
\* run to completion (succeeded or failed), none abandoned.
C4_FailureIsolated ==
    /\ [][Count(tasks, "failed")' > Count(tasks, "failed") =>
            /\ pool' = pool
            /\ Count(tasks, "terminated")' = Count(tasks, "terminated")
            /\ Count(tasks, "queued")' = Count(tasks, "queued")
            /\ Count(tasks, "ok")' = Count(tasks, "ok")]_vars
    /\ (pc = "join") ~>
          (/\ pc = "returned"
           /\ Unfinished(tasks) = 0
           /\ Count(tasks, "terminated") = 0)

C4_Witness ==
    /\ pc = "returned"
    /\ tasks["blue-marble"]["failed"] > 0
    /\ tasks["blue-marble"]["ok"] > 0
    /\ tasks["ETOPO"]["ok"] = EtopoUrls + EtopoKorea

\* C10: a group's tasks are submitted only if its marker directory was
\* absent when the driver checked it; a group whose marker exists, however
\* incomplete, is skipped in this run, and since directories are never
\* removed, in every later run.
C10_DirectoryLevelSkip ==
    /\ [](\A g \in Markers :
            /\ Submitted(tasks, g) > 0 => g \notin found /\ g \notin fsAtStart
            /\ g \in fsAtStart /\ pc \in {"close", "join", "returned"} => g \in found)
    /\ [][fs \subseteq fs' /\ (pc' = "mkdir_data" => fsAtStart' = fs)]_vars

C10_Witness ==
    /\ pc = "returned"
    /\ "blue-marble" \in fsAtStart
    /\ files["blue-marble"] < BlueMarbleUrls
    /\ "ne_10m_land" \in fsAtStart
    /\ files["ne_10m_land"] = 0
    /\ NoneSubmitted

(***************************************************************************)
(* The claim about download_file                                           *)
(***************************************************************************)
\* the filename ends in ".zip"
EndsInZip(name) ==
    Len(name) >= 4 /\ SubSeq(name, Len(name) - 3, Len(name)) = <<".">> \o Zip

\* the path with its last four characters, ".zip", stripped
Stripped(path) == SubSeq(path, 1, Len(path) - 4)

\* C8: after download_file has returned for a filename ending in ".zip", the
\* archive is gone from its destination path and its entries exist under
\* the path with the extension stripped; for any other filename the fetched
\* file is in place and nothing else was written or deleted.
C8_ArchiveExpanded ==
    fpc = "returned" =>
        IF EndsInZip(fcall.filename)
          THEN /\ ThePath \notin disk
               /\ EntryPaths(Stripped(ThePath), fcall.members) \subseteq disk
               /\ Stripped(ThePath) \in ddirs
          ELSE /\ ThePath \in disk
               /\ disk \ {OldFile} = {ThePath}
               /\ ddirs = {}

C8_Witness ==
    /\ fpc = "returned"
    /\ EndsInZip(fcall.filename)
    /\ fcall.members = Entries
    /\ Len(split(fcall.filename, ".")) = 3
    /\ OldFile \in disk

(***************************************************************************)
(* The claims about resampling and normalisation                           *)
(***************************************************************************)
\* round(num / den) of a non-negative fraction, halves to the even neighbour
RoundHalfEven(num, den) ==
    LET q == num \div den
        r == num % den
    IN  IF 2 * r > den \/ (2 * r = den /\ q % 2 = 1) THEN q + 1 ELSE q

\* C9 as stated: the resampled grid is round(H*factor) x round(W*factor).
C9_RoundedShape ==
    rpc = "read" /\ dataset.count = 1 =>
        shape = <<RoundHalfEven(dataset.height * factor.num, factor.den),
                  RoundHalfEven(dataset.width * factor.num, factor.den)>>

\* C9, with truncation: the raster is read at (count, H*factor, W*factor) with
\* the products truncated, not rounded, and squeeze() drops the axes of
\* length one; the 10800 x 21600 raster at 1/16 gives 675 x 1350.
C9_TruncatedShape ==
    rpc = "read" =>
        /\ shape = squeeze(<<dataset.count,
                             (dataset.height * factor.num) \div factor.den,
                             (dataset.width * factor.num) \div factor.den>>)
        /\ \A i \in DOMAIN shape : shape[i] # 1
        /\ (/\ dataset = [count |-> 1, height |-> EtopoHeight, width |-> EtopoWidth]
            /\ factor = [num |-> 1, den |-> UpscaleDen]) => shape = <<675, 1350>>

C9_Witness ==
    /\ rpc = "read"
    /\ dataset = [count |-> 1, height |-> 44, width |-> EtopoWidth]
    /\ factor = [num |-> 1, den |-> UpscaleDen]
    /\ shape = <<2, 1350>>

\* the control points of the claim, for the object norm and its last call
ControlPoints ==
    npc = "called" =>
        /\ nvalue = norm.vmin => FracEq(nresult, Frac(0, 1))
        /\ nvalue = norm.sealevel => FracEq(nresult, norm.col_val)
        /\ nvalue = norm.vmax => FracEq(nresult, Frac(1, 1))

Monotone ==
    \A x, y \in norm.vmin..norm.vmax :
        x <= y => FracLeq(call(norm, x), call(norm, y))

Current == sessions[sidx]

Pow10(k) == 10 ^ k

MaxScale(sw) ==
    LET a == IF sw.start.scale > sw.stop.scale THEN sw.start.scale ELSE sw.stop.scale
    IN  IF a > sw.step.scale THEN a ELSE sw.step.scale

\* the number as a count of 10^-k
Scaled(lit, k) == lit.n * Pow10(k - lit.scale)

\* ceil((stop - start) / step) of the numbers as written, 0 when stop <= start
ExactCount(sw) ==
    LET k == MaxScale(sw)
        span == Scaled(sw.stop, k) - Scaled(sw.start, k)
        step == Scaled(sw.step, k)
    IN  IF span <= 0 THEN 0 ELSE (span + step - 1) \div step

Increasing(seq) == \A i \in 1..(Len(seq) - 1) : d_lt(seq[i], seq[i + 1])

BelowStop(seq, n, sw) == \A i \in 1..n : d_lt(seq[i], d_of(sw.stop))

InSweepOrder == encoded = SubSeq(frames, 1, Len(encoded))

C6_OtherSessionsAttempted ==
    spc = "crashed" => attempted = 1..Len(sessions)

====
